---- MODULE Spec2Model ----
(***************************************************************************)
(* State machine of src/app/page.tsx (extended variant, lines 1-300): the  *)
(* "New input" form (inputCreatorForm) that defines field descriptors, and *)
(* the generated form (createdForm) whose field array `inputs` is grown by *)
(* append, shrunk by remove, reordered by swap and submitted to a toast.   *)
(*                                                                         *)
(* Indexes are 0-based as in the source; inputs[i + 1] is the element the  *)
(* source calls inputs[i].                                                 *)
(***************************************************************************)
EXTENDS Integers, Sequences, FiniteSets

VARIABLES
    inputs,           \* createdForm's field array: <<[id, label, value, type]>>
    nextId,           \* ids handed out so far by useFieldArray (input.id)
    collector,        \* inputCreatorForm's values: [label, defaultValue, type]
    creatorErrors,    \* inputCreatorForm.formState.errors: set of field names
    creatorSubmitted, \* inputCreatorForm.formState.isSubmitted
    createdErrors,    \* createdForm.formState.errors.inputs: set of <<index, field>>
    radio,            \* the item the (uncontrolled) type RadioGroup shows checked
    toastCalls        \* the toast(...) calls made by the last handler

vars == <<inputs, nextId, collector, creatorErrors, creatorSubmitted,
          createdErrors, radio, toastCalls>>

----------------------------------------------------------------------------
(* Bounds and input alphabets *)

\* number of descriptors the user creates in one run (ids handed out)
MaxIds == 3

\* what the user types into the label control
TypedLabels == {"", "Name"}

\* what the user types into the default value control
TypedDefaults == {"", "Ada"}

\* what the user types into a generated input
TypedValues == {"", "Ada"}

\* the radio items the user checks
TypedTypes == {"text", "number"}

\* JavaScript's undefined: a form value that was never set
Undefined == "<undefined>"

----------------------------------------------------------------------------
(* Constants and schemas of the source *)

INPUT_TYPES == {"text", "number", "email", "password"}

\* a label schema without its minimum length: z.string()
StringMin0(s) == s # Undefined

\* z.string().min(1)
StringMin1(s) == s # Undefined /\ Len(s) >= 1

\* .default("text") of the type union
TypeDefault(t) == IF t = Undefined THEN "text" ELSE t

\* inputCreatorSchema.safeParse(values), as zodResolver runs it:
\* [ok, data, errors] with errors the set of offending field names
InputCreatorParse(values) ==
    LET errs == (IF StringMin1(values.label) THEN {} ELSE {"label"})
                \cup (IF TypeDefault(values.type) \in INPUT_TYPES
                      THEN {} ELSE {"type"})
    IN [ok     |-> errs = {},
        data   |-> [label        |-> values.label,
                    defaultValue |-> values.defaultValue,
                    type         |-> TypeDefault(values.type)],
        errors |-> errs]

\* the schema of one element of createdFormSchema.inputs
CreatedInputErrors(input) ==
    (IF StringMin1(input.label) THEN {} ELSE {"label"})
    \cup (IF input.value # Undefined THEN {} ELSE {"value"})
    \cup (IF input.type \in INPUT_TYPES THEN {} ELSE {"type"})

\* a schema of the elements that has no `value` key, which zod then strips
CreatedFormParseNoValue(list) ==
    [ok     |-> TRUE,
     data   |-> [inputs |-> [i \in 1 .. Len(list) |->
                                [label |-> list[i].label,
                                 value |-> Undefined,
                                 type  |-> list[i].type]]],
     errors |-> {}]

\* createdFormSchema.safeParse({inputs}): data keeps label, value, type
CreatedFormParse(list) ==
    LET errs == UNION {{<<index, name>> :
                           name \in CreatedInputErrors(list[index + 1])} :
                       index \in 0 .. Len(list) - 1}
    IN [ok     |-> errs = {},
        data   |-> [inputs |-> [i \in 1 .. Len(list) |->
                                   [label |-> list[i].label,
                                    value |-> list[i].value,
                                    type  |-> list[i].type]]],
        errors |-> errs]

\* formatCreatedFormData: the children of the <p>, in document order
RECURSIVE FormatFrom(_, _)
FormatFrom(list, index) ==
    IF index >= Len(list) THEN <<>>
    ELSE (IF index # 0 THEN <<", ">> ELSE <<>>)
         \o <<list[index + 1].label, ": ", list[index + 1].value>>
         \o FormatFrom(list, index + 1)

formatCreatedFormData(data) == FormatFrom(data.inputs, 0)

----------------------------------------------------------------------------
(* useFieldArray's list operations *)

appendAt(data, value) == data \o <<value>>

\* a splice(index) without its delete count: drops the rest of the list
removeArrayAtRest(data, index) == SubSeq(data, 1, index)

removeArrayAt(data, index) ==
    SubSeq(data, 1, index) \o SubSeq(data, index + 2, Len(data))

\* a swap that forgets the second assignment
swapArrayAtOverwrite(data, indexA, indexB) ==
    [data EXCEPT ![indexA + 1] = data[indexB + 1]]

swapArrayAt(data, indexA, indexB) ==
    [data EXCEPT ![indexA + 1] = data[indexB + 1],
                 ![indexB + 1] = data[indexA + 1]]

\* the errors of the field array follow the elements on remove and swap
RemoveErrorsAt(errs, index) ==
    {<<IF e[1] > index THEN e[1] - 1 ELSE e[1], e[2]>> :
        e \in {x \in errs : x[1] # index}}

SwapErrorsAt(errs, indexA, indexB) ==
    {<<IF e[1] = indexA THEN indexB
       ELSE IF e[1] = indexB THEN indexA ELSE e[1], e[2]>> : e \in errs}

\* a move up that stops at the top: Math.max(0, index - 1)
MoveTargetNoWrap(index, length) == IF index = 0 THEN 0 ELSE index - 1

\* index the "Move up"/"Move down" button of row `index` swaps with
MoveTarget(index, length) == IF index = 0 THEN length - 1 ELSE index - 1

\* the move button is rendered only when inputs.length > 1
MoveOffered(length) == length > 1

\* the Submit button is rendered only when inputs.length > 0
SubmitOffered(length) == length > 0

----------------------------------------------------------------------------
(* Initial state: both forms as useForm constructs them *)

Init ==
    /\ inputs = <<>>
    /\ nextId = 0
    /\ collector = [label |-> Undefined, defaultValue |-> Undefined,
                    type |-> "text"]
    /\ creatorErrors = {}
    /\ creatorSubmitted = FALSE
    /\ createdErrors = {}
    /\ radio = "text"
    /\ toastCalls = <<>>

----------------------------------------------------------------------------
(* inputCreatorForm *)

\* what an <Input {...field} /> shows for a form value
Shown(value) == IF value = Undefined THEN "" ELSE value

\* reValidateMode onChange: once the form was submitted, a change of a field
\* re-runs the resolver and replaces that field's error
Revalidated(errs, submitted, values, name) ==
    IF submitted
    THEN (errs \ {name}) \cup (InputCreatorParse(values).errors \cap {name})
    ELSE errs

\* field.onChange(value) of the inputCreatorForm field `name`
ChangeCreatorField(name, value) ==
    LET values == [collector EXCEPT ![name] = value]
    IN /\ collector' = values
       /\ creatorErrors' =
              Revalidated(creatorErrors, creatorSubmitted, values, name)
       /\ UNCHANGED <<inputs, nextId, creatorSubmitted, createdErrors>>
       /\ toastCalls' = <<>>

\* the user edits the label control to read s
TypeLabel(s) ==
    /\ s # Shown(collector.label)
    /\ ChangeCreatorField("label", s)
    /\ UNCHANGED radio

\* the user edits the default value control to read s
TypeDefaultValue(s) ==
    /\ s # Shown(collector.defaultValue)
    /\ ChangeCreatorField("defaultValue", s)
    /\ UNCHANGED radio

\* the user checks the radio item t: onValueChange={field.onChange}
ChooseType(t) ==
    /\ t # radio
    /\ radio' = t
    /\ ChangeCreatorField("type", t)

\* a descriptor that ignores the default value
NewInputNoDefault(data, id) ==
    [id |-> id, label |-> data.label, value |-> "", type |-> data.type]

\* the descriptor onCreateInput appends
NewInput(data, id) ==
    [id    |-> id,
     label |-> data.label,
     value |-> IF data.defaultValue = Undefined THEN "" ELSE data.defaultValue,
     type  |-> data.type]

\* a reset that keeps the type the user chose
ResetKeepsType == [label |-> "", defaultValue |-> "", type |-> collector.type]

\* inputCreatorForm.reset({label: "", defaultValue: ""}): the given values
\* become the form's values; a field not given has no value
ResetValues == [label |-> "", defaultValue |-> "", type |-> Undefined]

\* onCreateInput(data): append, then reset
onCreateInput(data) ==
    /\ inputs' = appendAt(inputs, NewInput(data, nextId + 1))
    /\ nextId' = nextId + 1
    /\ collector' = ResetValues

\* inputCreatorForm.handleSubmit(onCreateInput), the "Add" button
SubmitCreator ==
    LET parsed == InputCreatorParse(collector)
    IN /\ IF parsed.ok
          THEN /\ nextId < MaxIds
               /\ onCreateInput(parsed.data)
          ELSE UNCHANGED <<inputs, nextId, collector>>
       /\ creatorErrors' = parsed.errors
       /\ creatorSubmitted' = TRUE
       /\ UNCHANGED <<createdErrors, radio>>
       /\ toastCalls' = <<>>

----------------------------------------------------------------------------
(* createdForm *)

\* onClick={() => remove(index)} of row `index`
Remove(index) ==
    /\ inputs' = removeArrayAt(inputs, index)
    /\ createdErrors' = RemoveErrorsAt(createdErrors, index)
    /\ UNCHANGED <<nextId, collector, creatorErrors, creatorSubmitted, radio>>
    /\ toastCalls' = <<>>

\* onClick={() => swap(index, index === 0 ? inputs.length - 1 : index - 1)}
Move(index) ==
    /\ MoveOffered(Len(inputs))
    /\ inputs' = swapArrayAt(inputs, index, MoveTarget(index, Len(inputs)))
    /\ createdErrors' = SwapErrorsAt(createdErrors, index,
                                     MoveTarget(index, Len(inputs)))
    /\ UNCHANGED <<nextId, collector, creatorErrors, creatorSubmitted, radio>>
    /\ toastCalls' = <<>>

\* a setValue that finds its descriptor by label instead of by position
setValueByLabel(list, index, value) ==
    [i \in 1 .. Len(list) |->
        IF list[i].label = list[index + 1].label
        THEN [list[i] EXCEPT !.value = value] ELSE list[i]]

\* createdForm.setValue(`inputs.${index}.value`, value)
setValue(list, index, value) == [list EXCEPT ![index + 1].value = value]

\* field.onChange of the input bound to `inputs.${index}.value`; the
\* change re-validates the field, replacing the error a submit left on it
\* (before the first submit there is none, and `value: z.string()` reports
\* none for the string an input holds)
UpdateValue(index, v) ==
    /\ v # inputs[index + 1].value
    /\ inputs' = setValue(inputs, index, v)
    /\ createdErrors' =
          (createdErrors \ {<<index, "value">>})
          \cup {<<index, name>> :
                  name \in CreatedInputErrors(inputs'[index + 1]) \cap {"value"}}
    /\ UNCHANGED <<nextId, collector, creatorErrors, creatorSubmitted, radio>>
    /\ toastCalls' = <<>>

\* onCreatedFormSubmit(data): one toast with the formatted answers
onCreatedFormSubmit(data) ==
    <<[title |-> "Answers submitted!", data |-> data,
       body |-> formatCreatedFormData(data)]>>

\* createdForm.handleSubmit(onCreatedFormSubmit), the "Submit" button
SubmitCreated ==
    LET parsed == CreatedFormParse(inputs)
    IN /\ SubmitOffered(Len(inputs))
       /\ UNCHANGED <<inputs, nextId, collector, creatorErrors,
                      creatorSubmitted, radio>>
       /\ createdErrors' = parsed.errors
       /\ toastCalls' = IF parsed.ok THEN onCreatedFormSubmit(parsed.data)
                        ELSE <<>>

----------------------------------------------------------------------------

\* the rows rendered by inputs.map((input, index) => ...)
Rows == 0 .. Len(inputs) - 1

Next ==
    \/ \E s \in TypedLabels : TypeLabel(s)
    \/ \E s \in TypedDefaults : TypeDefaultValue(s)
    \/ \E t \in TypedTypes : ChooseType(t)
    \/ SubmitCreator
    \/ \E index \in Rows : Remove(index)
    \/ \E index \in Rows : Move(index)
    \/ \E index \in Rows : \E v \in TypedValues : UpdateValue(index, v)
    \/ SubmitCreated

Spec == Init /\ [][Next]_vars

----------------------------------------------------------------------------
(* Properties *)

\* the ids of a list, in order
IdSeq(list) == [i \in 1 .. Len(list) |-> list[i].id]

\* the ids of a list as a set
IdSet(list) == {list[i].id : i \in 1 .. Len(list)}

\* the ids of `list` that `other` holds too, in the order of `list`
KeptIds(list, other) ==
    LET Kept(id) == id \in IdSet(other) IN SelectSeq(IdSeq(list), Kept)

\* the "Add" button is clicked and validation passes
AcceptStep == SubmitCreator /\ StringMin1(collector.label)

\* the "Add" button is clicked while the label control is empty
RejectStep == SubmitCreator /\ Shown(collector.label) = ""

RemoveStep == \E index \in Rows : Remove(index)

MoveStep == \E index \in Rows : Move(index)

\* every descriptor has its own id, and no id is handed out twice
TypeOK ==
    /\ \A i, j \in 1 .. Len(inputs) : inputs[i].id = inputs[j].id => i = j
    /\ IdSet(inputs) \subseteq 1 .. nextId
    /\ \A i \in 1 .. Len(inputs) :
          /\ StringMin1(inputs[i].label)
          /\ inputs[i].value # Undefined
          /\ inputs[i].type \in INPUT_TYPES

\* C1: an accept of {label: L, defaultValue: D, type: T} with L non-empty
\* keeps the existing descriptors in place and adds exactly one descriptor
\* {label: L, value: D, type: T} at the end, the value being "" when the
\* default value is absent.
C1_AcceptAppendsOne ==
    [][AcceptStep =>
          /\ Len(inputs') = Len(inputs) + 1
          /\ SubSeq(inputs', 1, Len(inputs)) = inputs
          /\ inputs'[Len(inputs')].label = collector.label
          /\ inputs'[Len(inputs')].value =
                 (IF collector.defaultValue = Undefined THEN ""
                  ELSE collector.defaultValue)
          /\ inputs'[Len(inputs')].type =
                 (IF collector.type = Undefined THEN "text"
                  ELSE collector.type)]_vars

\* a second descriptor was just added with a typed default and a chosen type
C1_Witness ==
    /\ Len(inputs) >= 2
    /\ inputs[Len(inputs)].id = nextId
    /\ inputs[Len(inputs)].value = "Ada"
    /\ inputs[Len(inputs)].type = "number"
    /\ inputs[Len(inputs)].label = "Name"
    /\ collector = ResetValues
    /\ creatorErrors = {}

\* C2: an accept with an empty label leaves the FieldList as it is, does not
\* run the append handler (no id handed out, no reset of the collector) and
\* puts a validation error on the label field.
C2_EmptyLabelRejected ==
    [][RejectStep =>
          /\ inputs' = inputs
          /\ nextId' = nextId
          /\ collector' = collector
          /\ "label" \in creatorErrors']_vars

\* "Add" was clicked with the label control empty and the other controls
\* filled in, after a descriptor had been created
C2_Witness ==
    /\ creatorSubmitted
    /\ creatorErrors = {"label"}
    /\ collector.label = ""
    /\ collector.defaultValue = "Ada"
    /\ collector.type = "number"
    /\ Len(inputs) >= 1

\* C3: remove(i) on a list of length N > 0 with 0 <= i < N gives the list of
\* length N - 1 in which the elements before i keep their index and the
\* elements after i move down by one, each unchanged.
C3_RemoveDeletesIndex ==
    [][\A index \in Rows :
          Remove(index) =>
              /\ Len(inputs) > 0
              /\ Len(inputs') = Len(inputs) - 1
              /\ \A j \in 0 .. Len(inputs') - 1 :
                    inputs'[j + 1] = IF j < index THEN inputs[j + 1]
                                     ELSE inputs[j + 2]]_vars

\* the middle one of three descriptors was removed
C3_Witness ==
    /\ nextId = 3
    /\ IdSeq(inputs) = <<1, 3>>

\* C4: the move action is never taken on a single-element list; on a list of
\* length N >= 2, on index 0 it exchanges positions 0 and N - 1, on index
\* k > 0 positions k and k - 1, and leaves every other position as it is.
C4_MoveSwaps ==
    [][\A index \in Rows :
          Move(index) =>
              LET other == IF index = 0 THEN Len(inputs) - 1 ELSE index - 1
              IN /\ Len(inputs) >= 2
                 /\ Len(inputs') = Len(inputs)
                 /\ inputs'[index + 1] = inputs[other + 1]
                 /\ inputs'[other + 1] = inputs[index + 1]
                 /\ \A j \in Rows \ {index, other} :
                       inputs'[j + 1] = inputs[j + 1]]_vars

\* [A, B, C] became [C, B, A]
C4_Witness ==
    /\ IdSeq(inputs) = <<3, 2, 1>>

\* C5: a submit of a FieldList with an empty value produces no ResultRecord
\* (no toast), marks each empty-valued field with a validation error and
\* leaves the FieldList unchanged.
C5_EmptyValueRejected ==
    [][(SubmitCreated /\ \E i \in 1 .. Len(inputs) : inputs[i].value = "") =>
          /\ toastCalls' = <<>>
          /\ createdErrors' = {<<i - 1, "value">> :
                                  i \in {k \in 1 .. Len(inputs) :
                                            inputs[k].value = ""}}
          /\ inputs' = inputs]_vars

C9_Lifecycle ==
    /\ inputs = <<>>
    /\ [][inputs' # inputs =>
             /\ Len(inputs') # Len(inputs) =>
                   \/ Len(inputs') = Len(inputs) + 1 /\ AcceptStep
                   \/ Len(inputs') = Len(inputs) - 1 /\ RemoveStep
             /\ IdSet(inputs') # IdSet(inputs) => AcceptStep \/ RemoveStep
             /\ (\/ Len(inputs') < Len(inputs)
                 \/ \E i \in 1 .. Len(inputs) :
                       inputs'[i].id # inputs[i].id) =>
                   MoveStep \/ RemoveStep
             /\ KeptIds(inputs', inputs) # KeptIds(inputs, inputs') =>
                   MoveStep]_vars

\* three descriptors were created, one removed, the rest reordered
C9_Witness ==
    /\ nextId = 3
    /\ IdSeq(inputs) = <<3, 2>>

\* C10: an updateValue(index, v) that changes the list overwrites only the
\* value of the descriptor at that index; a move or a remove leaves every
\* descriptor that stays with the label, value and type it had, found by
\* its id.
C10_ValueStaysAttached ==
    [][inputs' # inputs =>
          /\ \A index \in Rows : \A v \in TypedValues :
                UpdateValue(index, v) =>
                    /\ Len(inputs') = Len(inputs)
                    /\ inputs'[index + 1] =
                           [id    |-> inputs[index + 1].id,
                            label |-> inputs[index + 1].label,
                            value |-> v,
                            type  |-> inputs[index + 1].type]
                    /\ \A j \in Rows \ {index} :
                          inputs'[j + 1] = inputs[j + 1]
          /\ (MoveStep \/ RemoveStep) =>
                \A i \in 1 .. Len(inputs) : \A k \in 1 .. Len(inputs') :
                    inputs[i].id = inputs'[k].id => inputs'[k] = inputs[i]]_vars

\* two descriptors share a label and a type, differ in value, and stand in
\* the reverse of the order they were created in
C10_Witness ==
    /\ IdSeq(inputs) = <<2, 1>>
    /\ inputs[1].label = inputs[2].label
    /\ inputs[1].type = inputs[2].type
    /\ inputs[1].value = "Ada"
    /\ inputs[2].value = ""

====
